---- MODULE Spec2Model ----
(***************************************************************************)
(* The object store of mygit (cmd/mygit): the commands init, hash-object   *)
(* and cat-file acting on the .git directory of the working directory.     *)
(*                                                                         *)
(* Bytes and characters are their codes (0 is the null byte, 47 is '/'),   *)
(* byte strings and paths are sequences of codes.  A command is a process  *)
(* that walks through its filesystem calls one step at a time; its exit    *)
(* status and what it printed are kept once it is done.                    *)
(***************************************************************************)
EXTENDS Integers, Sequences, FiniteSets, TLC

\* Longest run of null bytes used as a file content.
MaxLen == 1
\* Number of init and hash-object invocations in one run (cat-file, which
\* writes nothing, is not counted).
MaxOps == 3

Procs == {1, 2}

\* A ten-byte content with a null byte inside: its size has two digits.
TenBytes == [i \in 1..10 |-> IF i = 5 THEN 0 ELSE 66]

Zeros(n) == [i \in 1..n |-> 0]

\* The file contents: nothing, runs of null bytes, "A", and TenBytes.
Contents == {Zeros(n) : n \in 0..MaxLen} \cup {<<65>>, TenBytes}

(***************************************************************************)
(* Pure helpers                                                            *)
(***************************************************************************)

\* The first index (0-based, as in the code) holding a null byte, or the
\* length when there is none.
findNullByteIndex_Last(data) ==
  IF \E i \in 1..Len(data) : data[i] = 0
  THEN (CHOOSE i \in 1..Len(data) :
          data[i] = 0 /\ \A j \in (i + 1)..Len(data) : data[j] # 0) - 1
  ELSE Len(data)

findNullByteIndex(data) ==
  IF \E i \in 1..Len(data) : data[i] = 0
  THEN (CHOOSE i \in 1..Len(data) :
          data[i] = 0 /\ \A j \in 1..(i - 1) : data[j] # 0) - 1
  ELSE Len(data)

\* %d
RECURSIVE Decimal(_)
Decimal(n) == IF n < 10 THEN <<48 + n>> ELSE Decimal(n \div 10) \o <<48 + (n % 10)>>

\* fmt.Sprintf("blob %d\x00%s", byteSize, fileContent)
BlobContents(fileContent) ==
  <<98, 108, 111, 98, 32>> \o Decimal(Len(fileContent)) \o <<0>> \o fileContent

RECURSIVE SumBytes(_)
SumBytes(s) == IF s = <<>> THEN 0 ELSE Head(s) + SumBytes(Tail(s))

\* sha1.Sum: a 20-byte digest.  The stand-in is deterministic, total and free
\* of collisions on texts of up to 18 bytes (the text itself, closed by 128 and
\* filled with zeros, after one byte that mixes all of the text), so that some
\* digests share their first byte and others do not.
sha1Sum(text) ==
  LET padded == text \o <<128>> \o Zeros(19)
  IN  <<SumBytes(text) % 3>> \o SubSeq(padded, 1, 19)

HexDigit(d) == IF d < 10 THEN 48 + d ELSE 87 + d

\* %x of a byte array: two lowercase hexadecimal digits per byte.
RECURSIVE HexString(_)
HexString(s) ==
  IF s = <<>> THEN <<>>
  ELSE <<HexDigit(Head(s) \div 16), HexDigit(Head(s) % 16)>> \o HexString(Tail(s))

sha1Hash(text) == HexString(sha1Sum(text))

(***************************************************************************)
(* compress/zlib: a two-byte header, the deflate stream (one stored block),*)
(* and the Adler-32 checksum of the data, big-endian.                      *)
(***************************************************************************)

ZlibHeader == <<120, 156>>

RECURSIVE AdlerB(_, _)
AdlerB(s, a) ==
  IF s = <<>> THEN 0
  ELSE LET a2 == (a + Head(s)) % 65521 IN (a2 + AdlerB(Tail(s), a2)) % 65521

Adler32(data) ==
  LET a == (1 + SumBytes(data)) % 65521
      b == AdlerB(data, 1)
  IN  <<b \div 256, b % 256, a \div 256, a % 256>>

Deflate(data) ==
  LET n == Len(data)
  IN  <<1, n % 256, n \div 256, 255 - (n % 256), 255 - (n \div 256)>> \o data

Compress(data) == ZlibHeader \o Deflate(data) \o Adler32(data)

\* zlib.NewReader: reads and checks the two header bytes.
ZlibHeaderOK(fileContents) ==
  /\ Len(fileContents) >= 2
  /\ fileContents[1] % 16 = 8
  /\ fileContents[1] \div 16 <= 7
  /\ (fileContents[1] * 256 + fileContents[2]) % 31 = 0
  /\ (fileContents[2] \div 32) % 2 = 0

\* The deflate reader on what follows the header: the data it yields before it
\* stops, whether the stream ended at a final block, and what is left.
RECURSIVE Inflate(_)
Inflate(s) ==
  IF Len(s) < 1 \/ (s[1] \div 2) % 4 # 0 \/ Len(s) < 5
    THEN [data |-> <<>>, ended |-> FALSE, rest |-> <<>>]
  ELSE LET n == s[2] + 256 * s[3]
       IN  IF s[4] + 256 * s[5] # 65535 - n
             THEN [data |-> <<>>, ended |-> FALSE, rest |-> <<>>]
           ELSE IF Len(s) - 5 < n
             THEN [data |-> SubSeq(s, 6, Len(s)), ended |-> FALSE, rest |-> <<>>]
           ELSE IF s[1] % 2 = 1
             THEN [data |-> SubSeq(s, 6, 5 + n), ended |-> TRUE,
                   rest |-> SubSeq(s, 6 + n, Len(s))]
           ELSE LET more == Inflate(SubSeq(s, 6 + n, Len(s)))
                IN  [data |-> SubSeq(s, 6, 5 + n) \o more.data,
                     ended |-> more.ended, rest |-> more.rest]

\* io.ReadAll(zReader): the bytes read, and the error (nil at a clean end).
ReadAll(fileContents) ==
  LET r == Inflate(SubSeq(fileContents, 3, Len(fileContents)))
  IN  [data |-> r.data,
       err  |-> IF ~r.ended THEN "unexpected EOF"
                ELSE IF Len(r.rest) < 4 THEN "unexpected EOF"
                ELSE IF SubSeq(r.rest, 1, 4) # Adler32(r.data) THEN "invalid checksum"
                ELSE "nil"]

(***************************************************************************)
(* Paths and the filesystem                                                *)
(***************************************************************************)

GitDir == <<46, 103, 105, 116, 47>>                                   \* .git/
ObjectsDir == <<46, 103, 105, 116, 47, 111, 98, 106, 101, 99, 116, 115>>  \* .git/objects
RefsDir == <<46, 103, 105, 116, 47, 114, 101, 102, 115>>               \* .git/refs
foldersToCreate == <<GitDir, ObjectsDir, RefsDir>>
filesToCreate == <<46, 103, 105, 116, 47, 72, 69, 65, 68>>             \* .git/HEAD
\* "ref: refs/heads/main\n"
headContent ==
  <<114, 101, 102, 58, 32, 114, 101, 102, 115, 47, 104, 101, 97, 100, 115, 47,
    109, 97, 105, 110, 10>>

\* A path without its trailing slash.
Clean(path) ==
  IF Len(path) > 1 /\ path[Len(path)] = 47 THEN SubSeq(path, 1, Len(path) - 1) ELSE path

\* The directory a path lies in; <<>> is the working directory.
Parent(path) ==
  LET p == Clean(path)
      slashes == {i \in 1..Len(p) : p[i] = 47}
  IN  IF slashes = {} THEN <<>>
      ELSE SubSeq(p, 1, (CHOOSE i \in slashes : \A j \in slashes : j <= i) - 1)

IsDir(ds, path) == path = <<>> \/ path \in ds

\* The error of os.Mkdir(path) on the filesystem (ds, fs).
MkdirErr(ds, fs, path) ==
  IF ~IsDir(ds, Parent(path)) THEN "ENOENT"
  ELSE IF Clean(path) \in ds \/ Clean(path) \in DOMAIN fs THEN "EEXIST"
  ELSE "nil"

\* os.IsExist(err)
IsExist_Never(err) == FALSE

IsExist(err) == err = "EEXIST"

\* The error of opening path for writing with O_CREATE|O_TRUNC.
CreateErr_Excl(ds, fs, path) ==
  IF ~IsDir(ds, Parent(path)) THEN "ENOENT"
  ELSE IF path \in ds THEN "EISDIR"
  ELSE IF path \in DOMAIN fs THEN "EEXIST"
  ELSE "nil"

CreateErr(ds, fs, path) ==
  IF ~IsDir(ds, Parent(path)) THEN "ENOENT"
  ELSE IF path \in ds THEN "EISDIR"
  ELSE "nil"

\* The files after os.Create(path): the file exists and is empty.

Create(fs, path) ==
  IF path \in DOMAIN fs THEN [fs EXCEPT ![path] = <<>>] ELSE fs @@ (path :> <<>>)

\* A file's bytes after a write of bytes at offset off (a gap reads as zeros).
WriteAt_Append(data, off, bytes) == data \o bytes

WriteAt(data, off, bytes) ==
  LET padded == IF Len(data) < off THEN data \o Zeros(off - Len(data)) ELSE data
  IN  SubSeq(padded, 1, off) \o bytes
        \o SubSeq(padded, off + Len(bytes) + 1, Len(padded))

\* os.ReadFile(path): the error, and the contents.
ReadFile_Empty(fs, path) ==
  [err |-> "nil", data |-> IF path \in DOMAIN fs THEN fs[path] ELSE <<>>]

ReadFile(fs, path) ==
  IF path \in DOMAIN fs THEN [err |-> "nil", data |-> fs[path]]
  ELSE [err |-> "ENOENT", data |-> <<>>]

\* fmt.Sprintf(".git/objects/%s/%s", objectFolder, objectFile) in hashObject.
hashObjectFile_Swapped(hash) ==
  ObjectsDir \o <<47>> \o SubSeq(hash, 3, Len(hash)) \o <<47>> \o SubSeq(hash, 1, 2)

hashObjectFile(hash) ==
  ObjectsDir \o <<47>> \o SubSeq(hash, 1, 2) \o <<47>> \o SubSeq(hash, 3, Len(hash))

hashObjectFolder(hash) == ObjectsDir \o <<47>> \o SubSeq(hash, 1, 2)

\* fmt.Sprintf(".git/objects/%s/%s", dir, filename) in catFile.
catFileFile(object) ==
  ObjectsDir \o <<47>> \o SubSeq(object, 1, 2) \o <<47>> \o SubSeq(object, 3, Len(object))

(***************************************************************************)
(* State                                                                   *)
(***************************************************************************)

VARIABLES
  dirs,     \* the directories that exist (paths without trailing slash)
  files,    \* the regular files that exist: path -> bytes
  proc,     \* per process: the command it runs, its locals and its results
  pre,      \* the filesystem when the latest command was started
  acked,    \* <<content, hash printed>> of each hash-object -w ended with status 0
  full,     \* contents whose object was complete when a hash-object -w of them ended
  initOK,   \* init has ended with status 0 before
  raced,    \* contents that two hash-object -w were writing at the same time
  nops      \* init and hash-object commands started so far

vars == <<dirs, files, proc, pre, acked, full, initOK, raced, nops>>

\* A process that runs no command.  exit is -1 while a command runs, then the
\* exit status: 0, 1 (os.Exit(1)) or 2 (a run-time panic).  known records, when
\* the command starts, that it has succeeded before: init, hash-object -w of
\* the same content, or (for cat-file) hash-object -w of the object read.
Fresh ==
  [pc |-> "idle", cmd |-> "none", write |-> FALSE, fileContent |-> <<>>,
   object |-> <<>>, blobContents |-> <<>>, hash |-> <<>>, file |-> <<>>,
   off |-> 0, pending |-> <<>>, decompressedContents |-> <<>>, i |-> 0,
   err |-> "nil", stdout |-> <<>>, stderr |-> "", exit |-> -1, known |-> FALSE]

\* The identifiers of all contents.
Objects == {sha1Hash(BlobContents(c)) : c \in Contents}

\* The object of content c is on disk, whole.
IsComplete(fs, c) ==
  LET path == hashObjectFile(sha1Hash(BlobContents(c)))
  IN  path \in DOMAIN fs /\ fs[path] = Compress(BlobContents(c))

Idle(p) == proc[p].pc \in {"idle", "done"}

\* A command of process p begins; cost is 1 for init and hash-object, 0 for
\* cat-file.
Begin(p, cost) ==
  /\ Idle(p)
  /\ nops + cost <= MaxOps
  /\ nops' = nops + cost
  /\ pre' = [dirs |-> dirs, files |-> files]

\* The processes in the middle of hash-object -w of fileContent.
Writing(fileContent) ==
  {q \in Procs : ~Idle(q) /\ proc[q].cmd = "hash-object"
                           /\ proc[q].fileContent = fileContent}

\* Process p goes on as r; the filesystem becomes (ds, fs).
Step(p, r, ds, fs) ==
  /\ proc' = [proc EXCEPT ![p] = r]
  /\ dirs' = ds
  /\ files' = fs
  /\ UNCHANGED <<acked, full, initOK>>

\* Process p ends as r with the given status; the filesystem becomes (ds, fs).
Exit(p, r, status, ds, fs) ==
  /\ proc' = [proc EXCEPT ![p] = [r EXCEPT !.pc = "done", !.exit = status]]
  /\ dirs' = ds
  /\ files' = fs
  /\ acked' = IF r.cmd = "hash-object" /\ r.write /\ status = 0
                THEN acked \cup {<<r.fileContent, r.hash>>} ELSE acked
  /\ full' = IF r.cmd = "hash-object" /\ r.write /\ IsComplete(fs, r.fileContent)
               THEN full \cup {r.fileContent} ELSE full
  /\ initOK' = (initOK \/ (r.cmd = "init" /\ status = 0))

Init ==
  /\ dirs = {}
  /\ files = [path \in {} |-> <<>>]
  /\ proc = [p \in Procs |-> Fresh]
  /\ pre = [dirs |-> {}, files |-> [path \in {} |-> <<>>]]
  /\ acked = {}
  /\ full = {}
  /\ initOK = FALSE
  /\ raced = {}
  /\ nops = 0

(***************************************************************************)
(* init                                                                    *)
(***************************************************************************)

StartInit(p) ==
  /\ Begin(p, 1)
  /\ UNCHANGED raced
  /\ Step(p, [Fresh EXCEPT !.pc = "init_mkdir", !.cmd = "init", !.i = 1,
                           !.known = initOK], dirs, files)

\* One round of the loop over foldersToCreate.
InitMkdir(p) ==
  /\ proc[p].pc = "init_mkdir"
  /\ LET folder == foldersToCreate[proc[p].i]
         err == MkdirErr(dirs, files, folder)
         ds == IF err = "nil" THEN dirs \cup {Clean(folder)} ELSE dirs
         r == [proc[p] EXCEPT !.err = err]
     IN  IF err # "nil" /\ ~IsExist(err)
           THEN Exit(p, [r EXCEPT !.stderr = "Failed to create folder"], 1, ds, files)
         ELSE IF proc[p].i < Len(foldersToCreate)
           THEN Step(p, [r EXCEPT !.i = @ + 1], ds, files)
         ELSE Step(p, [r EXCEPT !.pc = "init_head"], ds, files)
  /\ UNCHANGED <<pre, raced, nops>>

\* os.Mkdir fails for another reason than the folder existing.
InitMkdirFault(p) ==
  /\ proc[p].pc = "init_mkdir"
  /\ Exit(p, [proc[p] EXCEPT !.err = "EACCES", !.stderr = "Failed to create folder"],
          1, dirs, files)
  /\ UNCHANGED <<pre, raced, nops>>

\* "Initialized .git directory\n"
InitializedMsg ==
  <<73, 110, 105, 116, 105, 97, 108, 105, 122, 101, 100, 32, 46, 103, 105, 116, 32,
    100, 105, 114, 101, 99, 116, 111, 114, 121, 10>>

\* os.WriteFile(".git/HEAD", headContent, 0644)
InitHead(p) ==
  /\ proc[p].pc = "init_head"
  /\ LET err == CreateErr(dirs, files, filesToCreate)
         r == [proc[p] EXCEPT !.err = err]
     IN  IF err # "nil"
           THEN Exit(p, [r EXCEPT !.stderr = "Failed to create HEAD"], 1, dirs, files)
         ELSE Exit(p, [r EXCEPT !.stdout = InitializedMsg], 0, dirs,
                   [Create(files, filesToCreate) EXCEPT
                      ![filesToCreate] = WriteAt(<<>>, 0, headContent)])
  /\ UNCHANGED <<pre, raced, nops>>

\* os.WriteFile fails: at the open (nothing changes) or at the write (the file
\* was truncated by the open).
InitHeadFault(p) ==
  /\ proc[p].pc = "init_head"
  /\ \E opened \in BOOLEAN :
       /\ opened => CreateErr(dirs, files, filesToCreate) = "nil"
       /\ Exit(p, [proc[p] EXCEPT !.err = IF opened THEN "EIO" ELSE "EACCES",
                                  !.stderr = "Failed to create HEAD"],
               1, dirs, IF opened THEN Create(files, filesToCreate) ELSE files)
  /\ UNCHANGED <<pre, raced, nops>>

(***************************************************************************)
(* hash-object [-w] <file>                                                 *)
(***************************************************************************)

\* The file is read, the object built and hashed, the hash printed.
StartHashObject(p, fileContent, write) ==
  /\ Begin(p, 1)
  /\ raced' = IF write /\ Writing(fileContent) # {}
                THEN raced \cup {fileContent} ELSE raced
  /\ LET blobContents == BlobContents(fileContent)
         hash == sha1Hash(blobContents)
         r == [Fresh EXCEPT !.cmd = "hash-object", !.write = write,
                            !.fileContent = fileContent,
                            !.blobContents = blobContents, !.hash = hash,
                            !.stdout = hash \o <<10>>,
                            !.known = (\E a \in acked : a[1] = fileContent)]
     IN  IF write THEN Step(p, [r EXCEPT !.pc = "mkdir"], dirs, files)
         ELSE Exit(p, r, 0, dirs, files)

\* os.ReadFile(file) fails.
HashObjectReadFault(p) ==
  /\ Begin(p, 1)
  /\ UNCHANGED raced
  /\ Exit(p, [Fresh EXCEPT !.cmd = "hash-object", !.err = "ENOENT",
                           !.stderr = "Failed to read file"], 1, dirs, files)

\* os.Mkdir of the object directory.
HashMkdir(p) ==
  /\ proc[p].pc = "mkdir"
  /\ LET folder == hashObjectFolder(proc[p].hash)
         err == MkdirErr(dirs, files, folder)
         ds == IF err = "nil" THEN dirs \cup {Clean(folder)} ELSE dirs
         r == [proc[p] EXCEPT !.err = err]
     IN  IF err # "nil" /\ ~IsExist(err)
           THEN Exit(p, [r EXCEPT !.stderr = "Failed to create folder"], 1, ds, files)
         ELSE Step(p, [r EXCEPT !.pc = "create"], ds, files)
  /\ UNCHANGED <<pre, raced, nops>>

HashMkdirFault(p) ==
  /\ proc[p].pc = "mkdir"
  /\ Exit(p, [proc[p] EXCEPT !.err = "EACCES", !.stderr = "Failed to create folder"],
          1, dirs, files)
  /\ UNCHANGED <<pre, raced, nops>>

\* os.Create(compressedFile)
HashCreate(p) ==
  /\ proc[p].pc = "create"
  /\ LET compressedFile == hashObjectFile(proc[p].hash)
         err == CreateErr(dirs, files, compressedFile)
         r == [proc[p] EXCEPT !.err = err, !.file = compressedFile]
     IN  IF err # "nil"
           THEN Exit(p, [r EXCEPT !.stderr = "Failed to create compressed file"],
                     1, dirs, files)
         ELSE Step(p, [r EXCEPT !.pc = "write", !.off = 0], dirs,
                   Create(files, compressedFile))
  /\ UNCHANGED <<pre, raced, nops>>

HashCreateFault(p) ==
  /\ proc[p].pc = "create"
  /\ Exit(p, [proc[p] EXCEPT !.err = "EACCES", !.file = hashObjectFile(proc[p].hash),
                             !.stderr = "Failed to create compressed file"],
          1, dirs, files)
  /\ UNCHANGED <<pre, raced, nops>>

\* compressedWriter.Write(blobContents): the zlib header goes to the file, the
\* deflate stream of the data stays in the writer until it is closed.
HashWrite(p) ==
  /\ proc[p].pc = "write"
  /\ Step(p, [proc[p] EXCEPT !.pc = "flush", !.err = "nil",
                             !.off = @ + Len(ZlibHeader),
                             !.pending = Deflate(proc[p].blobContents)],
          dirs,
          [files EXCEPT ![proc[p].file] = WriteAt(@, proc[p].off, ZlibHeader)])
  /\ UNCHANGED <<pre, raced, nops>>

\* The write fails: os.Exit(1), which runs no deferred call.
HashWriteFault(p) ==
  /\ proc[p].pc = "write"
  /\ Exit(p, [proc[p] EXCEPT !.err = "EIO",
                             !.stderr = "Failed to write zlib compressed data"],
          1, dirs, files)
  /\ UNCHANGED <<pre, raced, nops>>

\* The deferred compressedWriter.Close(), first half: the deflate stream is
\* written to the file.
HashClose(p) ==
  /\ proc[p].pc = "flush"
  /\ Step(p, [proc[p] EXCEPT !.pc = "checksum", !.off = @ + Len(proc[p].pending),
                             !.pending = <<>>],
          dirs,
          [files EXCEPT ![proc[p].file] = WriteAt(@, proc[p].off, proc[p].pending)])
  /\ UNCHANGED <<pre, raced, nops>>

\* That write fails: Close returns the error, which the defer drops.
HashCloseFault(p) ==
  /\ proc[p].pc = "flush"
  /\ Exit(p, proc[p], 0, dirs, files)
  /\ UNCHANGED <<pre, raced, nops>>

\* The deferred Close, second half: the checksum is written; hashObject returns.
HashCloseSum(p) ==
  /\ proc[p].pc = "checksum"
  /\ Exit(p, [proc[p] EXCEPT !.off = @ + 4], 0, dirs,
          [files EXCEPT ![proc[p].file] =
             WriteAt(@, proc[p].off, Adler32(proc[p].blobContents))])
  /\ UNCHANGED <<pre, raced, nops>>

HashCloseSumFault(p) ==
  /\ proc[p].pc = "checksum"
  /\ Exit(p, proc[p], 0, dirs, files)
  /\ UNCHANGED <<pre, raced, nops>>

(***************************************************************************)
(* cat-file -p <object>                                                    *)
(***************************************************************************)

\* The whole command: its one access to the filesystem is os.ReadFile.
CatFile(p, object) ==
  /\ Begin(p, 0)
  /\ UNCHANGED raced
  /\ LET file == catFileFile(object)
         read == ReadFile(files, file)
         r == [Fresh EXCEPT !.cmd = "cat-file", !.object = object, !.file = file,
                            !.err = read.err,
                            !.known = (\E a \in acked : a[2] = object)]
     IN  IF read.err # "nil"
           THEN Exit(p, [r EXCEPT !.stderr = "Failed to read"], 1, dirs, files)
         ELSE IF ~ZlibHeaderOK(read.data)
           THEN Exit(p, [r EXCEPT !.err = "invalid header",
                                  !.stderr = "Failed to decompress content"],
                     1, dirs, files)
         ELSE LET decompressedContents == ReadAll(read.data).data
                  headerEndOffset == findNullByteIndex(decompressedContents)
                  r2 == [r EXCEPT !.decompressedContents = decompressedContents]
              IN  IF headerEndOffset + 1 > Len(decompressedContents)
                    THEN Exit(p, [r2 EXCEPT !.stderr = "panic: slice bounds out of range"],
                              2, dirs, files)
                  ELSE Exit(p, [r2 EXCEPT !.stdout =
                                  SubSeq(decompressedContents, headerEndOffset + 2,
                                         Len(decompressedContents))],
                            0, dirs, files)

(***************************************************************************)
(* Specifications                                                          *)
(***************************************************************************)

\* The commands, one at a time, on a filesystem that never fails.
Next ==
  \/ StartInit(1)
  \/ InitMkdir(1)
  \/ InitHead(1)
  \/ \E c \in Contents, w \in BOOLEAN : StartHashObject(1, c, w)
  \/ HashMkdir(1)
  \/ HashCreate(1)
  \/ HashWrite(1)
  \/ HashClose(1)
  \/ HashCloseSum(1)
  \/ \E o \in Objects : CatFile(1, o)

Spec == Init /\ [][Next]_vars

\* The same on a filesystem on which the calls of init may fail.
NextInit ==
  \/ Next
  \/ InitMkdirFault(1)
  \/ InitHeadFault(1)

SpecInit == Init /\ [][NextInit]_vars

\* The same on a filesystem on which every call may fail.
NextFault ==
  \/ NextInit
  \/ HashObjectReadFault(1)
  \/ HashMkdirFault(1)
  \/ HashCreateFault(1)
  \/ HashWriteFault(1)
  \/ HashCloseFault(1)
  \/ HashCloseSumFault(1)

SpecFault == Init /\ [][NextFault]_vars

\* Object files that did not come from hash-object: a well-formed stream of
\* data with no null byte, a stream cut before its checksum, a stream cut inside
\* its data, a stream with a wrong checksum, and bytes that are no zlib header.
ForeignFiles ==
  LET blob == BlobContents(<<65>>)
      whole == Compress(blob)
  IN  { Compress(<<98, 108, 111, 98>>),
        SubSeq(whole, 1, Len(whole) - 4),
        SubSeq(whole, 1, Len(whole) - 5),
        [whole EXCEPT ![Len(whole)] = (@ + 1) % 256],
        <<0, 0>> }

\* Something else than this program puts a file where an object belongs.
Foreign(object, bytes) ==
  /\ \A p \in Procs : Idle(p)
  /\ nops < MaxOps
  /\ nops' = nops + 1
  /\ IsDir(dirs, ObjectsDir)
  /\ dirs' = dirs \cup {hashObjectFolder(object)}
  /\ files' = [path \in DOMAIN files \cup {catFileFile(object)} |->
                 IF path = catFileFile(object) THEN bytes ELSE files[path]]
  /\ UNCHANGED <<proc, pre, acked, full, initOK, raced>>

NextEnv ==
  \/ Next
  \/ \E o \in Objects, bytes \in ForeignFiles : Foreign(o, bytes)

SpecEnv == Init /\ [][NextEnv]_vars

\* A repository that init has set up.
InitRepo ==
  /\ dirs = {Clean(foldersToCreate[i]) : i \in 1..Len(foldersToCreate)}
  /\ files = (filesToCreate :> headContent)
  /\ proc = [p \in Procs |-> Fresh]
  /\ pre = [dirs |-> dirs, files |-> files]
  /\ acked = {}
  /\ full = {}
  /\ initOK = TRUE
  /\ raced = {}
  /\ nops = 0

\* Two processes run hash-object -w side by side, interleaved between any two
\* of their filesystem calls; cat-file runs while no write is under way.  The
\* processes being alike, process 2 is the one that starts while process 1 is
\* busy, and cat-file is run by process 1.
NextRace ==
  \/ \E c \in Contents : StartHashObject(1, c, TRUE)
  \/ \E c \in Contents : ~Idle(1) /\ StartHashObject(2, c, TRUE)
  \/ \E o \in Objects : (\A q \in Procs : Idle(q)) /\ CatFile(1, o)
  \/ \E p \in Procs :
       \/ HashMkdir(p)
       \/ HashCreate(p)
       \/ HashWrite(p)
       \/ HashClose(p)
       \/ HashCloseSum(p)

SpecRace == InitRepo /\ [][NextRace]_vars

(***************************************************************************)
(* Properties                                                              *)
(***************************************************************************)

Done(p, cmd) == proc[p].pc = "done" /\ proc[p].cmd = cmd

\* A path as the layout describes it: the objects directory, the first two
\* characters of the identifier, the remaining ones.
ShardPath(identifier) ==
  ObjectsDir \o <<47>> \o SubSeq(identifier, 1, 2) \o <<47>>
    \o SubSeq(identifier, 3, Len(identifier))

HasNull(bytes) == \E i \in 1..Len(bytes) : bytes[i] = 0

\* A well-formed compressed stream: header, complete data, matching checksum.
WellFormed(bytes) == ZlibHeaderOK(bytes) /\ ReadAll(bytes).err = "nil"

\* C1: cat-file of an object that hash-object -w has reported written prints
\* exactly the content that was hashed, and what it cut off in front of it, up
\* to the first null byte, is the header "blob <size>".
RoundTrip ==
  \A p \in Procs :
    (Done(p, "cat-file") /\ proc[p].known) =>
      /\ proc[p].exit = 0
      /\ \A a \in acked :
           a[2] = proc[p].object =>
             /\ proc[p].stdout = a[1]
             /\ proc[p].decompressedContents =
                  <<98, 108, 111, 98, 32>> \o Decimal(Len(a[1])) \o <<0>> \o a[1]

\* cat-file has printed back a written ten-byte content with a null byte in it.
RoundTripWitness ==
  \E p \in Procs :
    /\ Done(p, "cat-file") /\ proc[p].known /\ proc[p].exit = 0
    /\ proc[p].stdout = TenBytes
    /\ HasNull(proc[p].stdout)

\* C2: hash-object -w of a content that was written before ends with status 0,
\* prints the identifier it printed the first time, and leaves directories and
\* files exactly as they were before it started.
IdempotentPut ==
  \A p \in Procs :
    (Done(p, "hash-object") /\ proc[p].write /\ proc[p].known) =>
      /\ proc[p].exit = 0
      /\ \A a \in acked :
           a[1] = proc[p].fileContent => proc[p].stdout = a[2] \o <<10>>
      /\ dirs = pre.dirs
      /\ files = pre.files

\* A second hash-object -w of the same content has ended, the object and its
\* directory being there already.
IdempotentPutWitness ==
  \E p \in Procs :
    /\ Done(p, "hash-object") /\ proc[p].write /\ proc[p].known
    /\ proc[p].exit = 0
    /\ hashObjectFolder(proc[p].hash) \in pre.dirs
    /\ proc[p].file \in DOMAIN pre.files
    /\ pre.files[proc[p].file] = Compress(proc[p].blobContents)

\* C3: once a command has ended with an object complete on disk, the object is
\* complete on disk whenever no command is running.
ObjectsImmutable ==
  (\A p \in Procs : Idle(p)) => \A c \in full : IsComplete(files, c)

\* C4: cat-file of a file that decompresses to bytes without a null byte ends
\* with status 1 and prints nothing.
MalformedObjectFails ==
  \A p \in Procs :
    (/\ Done(p, "cat-file")
     /\ proc[p].file \in DOMAIN pre.files
     /\ ZlibHeaderOK(pre.files[proc[p].file])
     /\ ~HasNull(ReadAll(pre.files[proc[p].file]).data)) =>
      proc[p].exit = 1 /\ proc[p].stdout = <<>>

\* C5: cat-file of a file that is not a well-formed compressed stream ends with
\* status 1, reporting the failed decompression, and prints nothing.
CorruptStreamFails ==
  \A p \in Procs :
    (/\ Done(p, "cat-file")
     /\ proc[p].file \in DOMAIN pre.files
     /\ ~WellFormed(pre.files[proc[p].file])) =>
      /\ proc[p].exit = 1
      /\ proc[p].stderr = "Failed to decompress content"
      /\ proc[p].stdout = <<>>

\* C6: hash-object -w ends with status 0 only when the object file holds the
\* whole compressed object.
PutReportsFailure ==
  \A p \in Procs :
    (Done(p, "hash-object") /\ proc[p].write /\ proc[p].exit = 0) =>
      IsComplete(files, proc[p].fileContent)

\* C7: cat-file of an identifier whose file does not exist ends with status 1,
\* reporting the failed read, prints nothing, and leaves directories and files
\* as they were.
MissingObject ==
  \A p \in Procs :
    (Done(p, "cat-file") /\ ShardPath(proc[p].object) \notin DOMAIN pre.files) =>
      /\ proc[p].exit = 1
      /\ proc[p].stderr = "Failed to read"
      /\ proc[p].stdout = <<>>
      /\ dirs = pre.dirs
      /\ files = pre.files

\* cat-file has failed on an unwritten identifier in a repository that holds
\* another object in the same directory.
MissingObjectWitness ==
  \E p \in Procs :
    /\ Done(p, "cat-file") /\ proc[p].exit = 1 /\ ~proc[p].known
    /\ hashObjectFolder(proc[p].object) \in dirs
    /\ ShardPath(proc[p].object) \notin DOMAIN files

\* The directories init creates.
Skeleton == {Clean(foldersToCreate[i]) : i \in 1..Len(foldersToCreate)}

\* C8: init that ends with status 0 leaves the three directories and HEAD with
\* its content, and changes nothing else; when it had succeeded before and HEAD
\* is as it left it, nothing changes at all.  init ends with status 1 exactly
\* when a call fails otherwise than by "already exists".
IdempotentInit ==
  \A p \in Procs :
    proc[p].cmd = "init" =>
      /\ proc[p].pc # "done" => proc[p].err \in {"nil", "EEXIST"}
      /\ proc[p].pc = "done" =>
           /\ proc[p].exit \in {0, 1}
           /\ proc[p].exit = 1 <=> proc[p].err \notin {"nil", "EEXIST"}
           /\ proc[p].exit = 0 =>
                /\ dirs = pre.dirs \cup Skeleton
                /\ DOMAIN files = DOMAIN pre.files \cup {filesToCreate}
                /\ \A path \in DOMAIN files :
                     files[path] = IF path = filesToCreate THEN headContent
                                   ELSE pre.files[path]
                /\ (/\ proc[p].known
                    /\ filesToCreate \in DOMAIN pre.files
                    /\ pre.files[filesToCreate] = headContent) =>
                     dirs = pre.dirs /\ files = pre.files

\* A second init has succeeded in a repository init had set up, all three
\* directories being there already.
IdempotentInitWitness ==
  \E p \in Procs :
    /\ Done(p, "init") /\ proc[p].exit = 0 /\ proc[p].known
    /\ proc[p].err = "nil"
    /\ Skeleton \subseteq pre.dirs
    /\ filesToCreate \in DOMAIN pre.files
    /\ pre.files[filesToCreate] = headContent

\* C9: hash-object and cat-file use, for a 40-character identifier, the path
\* made of the objects directory, the identifier's first 2 characters and its
\* other 38; the two agree on every identifier, different identifiers have
\* different paths, and hash-object -w touches no other file than that one.
ShardPathCorrect ==
  /\ \A p \in Procs :
       proc[p].file # <<>> =>
         LET id == IF proc[p].cmd = "cat-file" THEN proc[p].object ELSE proc[p].hash
         IN  /\ Len(id) = 40
             /\ Len(proc[p].file) = Len(ObjectsDir) + 1 + 2 + 1 + 38
             /\ proc[p].file = ShardPath(id)
  /\ \A i \in Objects, j \in Objects :
       /\ catFileFile(i) = hashObjectFile(j) <=> i = j
       /\ hashObjectFolder(i) = SubSeq(hashObjectFile(i), 1, Len(ObjectsDir) + 3)
  /\ \A p \in Procs :
       (Done(p, "hash-object") /\ proc[p].exit = 0 /\ proc[p].write) =>
         /\ DOMAIN files = DOMAIN pre.files \cup {ShardPath(proc[p].hash)}
         /\ \A path \in DOMAIN pre.files :
              path # ShardPath(proc[p].hash) => files[path] = pre.files[path]

\* cat-file has read an object from a directory that holds two objects.
ShardPathWitness ==
  \E p \in Procs :
    /\ Done(p, "cat-file") /\ proc[p].exit = 0 /\ proc[p].known
    /\ \E other \in DOMAIN files :
         /\ other # proc[p].file
         /\ Parent(other) = Parent(proc[p].file)

\* C10: every hash-object -w of two racing processes ends with status 0; when
\* none is running, every object written holds the whole compressed object, and
\* cat-file then prints the content.
RacingWriters ==
  /\ \A p \in Procs : Done(p, "hash-object") => proc[p].exit = 0
  /\ (\A p \in Procs : Idle(p)) =>
       \A a \in acked :
         /\ ShardPath(a[2]) \in DOMAIN files
         /\ files[ShardPath(a[2])] = Compress(BlobContents(a[1]))
  /\ \A p \in Procs :
       (Done(p, "cat-file") /\ proc[p].known) =>
         /\ proc[p].exit = 0
         /\ \A a \in acked : a[2] = proc[p].object => proc[p].stdout = a[1]

\* Two processes have written the same content at the same time, both have
\* ended, and cat-file has printed the content.
RacingWritersWitness ==
  /\ Done(2, "hash-object")
  /\ \E a \in acked :
       /\ a[1] \in raced
       /\ a[1] = proc[2].fileContent
       /\ Done(1, "cat-file") /\ proc[1].object = a[2] /\ proc[1].stdout = a[1]

====
